---- MODULE Spec2Model ----
(***************************************************************************)
(* State-machine model of the DataTable component (src/src/DataTable.tsx). *)
(* State: the component's useState cells (search, sortKey, sortDir,        *)
(* currentPage, selected), the caller's props that vary (data, pageSize),  *)
(* and the arguments of the callbacks fired by the last event.             *)
(* Derived values (filtered, sorted, totalPages, safeCurrentPage,          *)
(* paginated, page buttons) are operators over the state, recomputed as    *)
(* the render does.                                                        *)
(***************************************************************************)
EXTENDS Integers, Sequences, FiniteSets, TLC

\* ------------------------------------------------------------------------
\* Bounds
\* ------------------------------------------------------------------------
MaxRecs == 6       \* records in data when row selection is off
MaxSelRecs == 3    \* records in data when row selection is on
MaxPageSize == 2

\* ------------------------------------------------------------------------
\* Values: a field value is null, a string (sequence of characters) or a
\* number.  Strings are tuples of one-character strings.
\* ------------------------------------------------------------------------
Null == [t |-> "null"]
Str(s) == [t |-> "str", s |-> s]
Num(n) == [t |-> "num", n |-> n]

Min(a, b) == IF a <= b THEN a ELSE b
Max(a, b) == IF a >= b THEN a ELSE b

Digits == <<"0", "1", "2", "3", "4", "5", "6", "7", "8", "9">>

DigitSet == {Digits[i] : i \in 1..10}

DigitMap == [c \in DigitSet |-> (CHOOSE i \in 1..10 : Digits[i] = c) - 1]

DigitVal(c) == DigitMap[c]

IsDigit(c) == c \in DigitSet

\* String(n) for a non-negative integer: its decimal digits.
RECURSIVE NumToString(_)
NumToString(n) ==
  IF n < 10 THEN <<Digits[n + 1]>>
  ELSE NumToString(n \div 10) \o <<Digits[(n % 10) + 1]>>

\* String(val) for a non-null field value.
ToStr(v) == IF v.t = "num" THEN NumToString(v.n) ELSE v.s

Lowers == <<"a", "b", "c", "d", "e", "f", "g", "h", "i", "j", "k", "l", "m",
            "n", "o", "p", "q", "r", "s", "t", "u", "v", "w", "x", "y", "z">>

Uppers == <<"A", "B", "C", "D", "E", "F", "G", "H", "I", "J", "K", "L", "M",
            "N", "O", "P", "Q", "R", "S", "T", "U", "V", "W", "X", "Y", "Z">>

UpperSet == {Uppers[i] : i \in 1..26}

LowerSet == {Lowers[i] : i \in 1..26}

LowerMap == [c \in UpperSet |-> Lowers[CHOOSE i \in 1..26 : Uppers[i] = c]]

LetterIndex == [c \in LowerSet |-> CHOOSE i \in 1..26 : Lowers[i] = c]

IsUpper(c) == c \in UpperSet

IsLetter(c) == c \in UpperSet \/ c \in LowerSet

\* String.prototype.toLowerCase, character by character.
LowerChar(c) == IF IsUpper(c) THEN LowerMap[c] ELSE c

ToLowerCase(s) == [i \in 1..Len(s) |-> LowerChar(s[i])]

\* String.prototype.trim: drops leading and trailing white space.
RECURSIVE TrimStart(_)
TrimStart(s) ==
  IF s # <<>> /\ Head(s) = " " THEN TrimStart(Tail(s)) ELSE s

RECURSIVE TrimEnd(_)
TrimEnd(s) ==
  IF s # <<>> /\ s[Len(s)] = " " THEN TrimEnd(SubSeq(s, 1, Len(s) - 1)) ELSE s

Trim(s) == TrimEnd(TrimStart(s))

\* String.prototype.includes
Includes(s, q) ==
  \E i \in 0..(Len(s) - Len(q)) : SubSeq(s, i + 1, i + Len(q)) = q

\* localeCompare(..., undefined, {numeric: true}) on the characters the model
\* uses, after the root collation: white space sorts before digits, digits
\* before letters; a run of digits compares by its numeric value; letters
\* compare without case first, and a lower-case letter precedes its
\* upper-case form only when the strings are otherwise equal.
PrimaryRank(c) ==
  IF IsLetter(c) THEN 20 + LetterIndex[LowerChar(c)]
  ELSE IF IsDigit(c) THEN 10 + DigitVal(c)
  ELSE 0

\* Length of the run of digits at the head of s.
RECURSIVE DigitRun(_)
DigitRun(s) ==
  IF s # <<>> /\ IsDigit(Head(s)) THEN 1 + DigitRun(Tail(s)) ELSE 0

RECURSIVE DigitsValue(_, _)
DigitsValue(s, acc) ==
  IF s = <<>> THEN acc ELSE DigitsValue(Tail(s), 10 * acc + DigitVal(Head(s)))

Sign(n) == IF n < 0 THEN -1 ELSE IF n > 0 THEN 1 ELSE 0

RECURSIVE PrimaryCompare(_, _)
PrimaryCompare(s, t) ==
  IF s = <<>> /\ t = <<>> THEN 0
  ELSE IF s = <<>> THEN -1
  ELSE IF t = <<>> THEN 1
  ELSE IF IsDigit(Head(s)) /\ IsDigit(Head(t)) THEN
    LET ls == DigitRun(s)
        lt == DigitRun(t)
        vs == DigitsValue(SubSeq(s, 1, ls), 0)
        vt == DigitsValue(SubSeq(t, 1, lt), 0)
    IN IF vs # vt THEN Sign(vs - vt)
       ELSE PrimaryCompare(SubSeq(s, ls + 1, Len(s)), SubSeq(t, lt + 1, Len(t)))
  ELSE IF IsDigit(Head(s)) THEN (IF Head(t) = " " THEN 1 ELSE -1)
  ELSE IF IsDigit(Head(t)) THEN (IF Head(s) = " " THEN -1 ELSE 1)
  ELSE IF PrimaryRank(Head(s)) # PrimaryRank(Head(t))
    THEN Sign(PrimaryRank(Head(s)) - PrimaryRank(Head(t)))
  ELSE PrimaryCompare(Tail(s), Tail(t))

RECURSIVE CaseCompare(_, _)
CaseCompare(s, t) ==
  IF s = <<>> \/ t = <<>> THEN 0
  ELSE IF IsUpper(Head(s)) /\ ~IsUpper(Head(t)) THEN 1
  ELSE IF ~IsUpper(Head(s)) /\ IsUpper(Head(t)) THEN -1
  ELSE CaseCompare(Tail(s), Tail(t))

LocaleCompare(s, t) ==
  LET p == PrimaryCompare(s, t)
  IN IF p # 0 THEN p ELSE CaseCompare(s, t)

\* ------------------------------------------------------------------------
\* Props.  columns is fixed; data and pageSize are chosen by the caller and
\* may change between renders.  The records the caller draws from:
\* identifiers are unique and not in array order.
\* ------------------------------------------------------------------------
columns ==
  << [key |-> "name", sortable |-> TRUE],
     [key |-> "role", sortable |-> TRUE],
     [key |-> "id", sortable |-> FALSE] >>

NameTable ==
  << Str(<<"B", "o", "b">>), Str(<<"a", "l", "i", "c", "e">>), Null,
     Str(<<"a", "1", "0">>), Str(<<"a", "2">>), Str(<<"A", "l", "i", "c", "e">>) >>

RoleTable == << Str(<<"A", "d", "m", "i", "n">>), Str(<<"b", " ", "a">>), Null >>

IdOf(i) == IF i % 2 = 1 THEN i + 1 ELSE i - 1

RecordAt(i) ==
  [id |-> IdOf(i),
   name |-> NameTable[((i - 1) % Len(NameTable)) + 1],
   role |-> RoleTable[((i - 1) % Len(RoleTable)) + 1]]

\* The caller's data array of n records.
DataOf(n) == [i \in 1..n |-> RecordAt(i)]

Ids == {IdOf(i) : i \in 1..Max(MaxRecs, MaxSelRecs)}

\* The lengths of the arrays the caller passes.
DataLens(sel) ==
  IF sel THEN {0, MaxSelRecs \div 2, MaxSelRecs} ELSE 0..MaxRecs

\* Texts typed into the search box.
Searches ==
  { <<>>, <<" ">>, <<"B">>, <<" ", "a">> }

searchable == TRUE
loading == FALSE

NullKey == "null"
NullDir == "null"

\* row[col.key]
Field(row, key) == IF key = "id" THEN Num(row.id) ELSE row[key]

\* ------------------------------------------------------------------------
\* State
\* ------------------------------------------------------------------------
VARIABLES
  selectable,   \* prop: row selection is on
  data,         \* prop: the record array
  pageSize,     \* prop: rows per page
  search,       \* useState('')
  sortKey,      \* useState(null)
  sortDir,      \* useState(null)
  currentPage,  \* useState(1)
  selected,     \* useState(new Set())
  selCb,        \* onSelectionChange call made by the last event
  sortCb,       \* onSort call made by the last event
  lastOp,       \* the last event
  lastRow,      \* the row identifier the last event was about, if any
  lastCol,      \* the column key of the header the last event clicked, if any
  heldSel,      \* the selection at the last search, sort or page event that
                \* no onSelectionChange call but the last event's has followed
  pageBefore,   \* the page shown before the last event, if it was Prev or Next
  sortRun,      \* activations in a row of one header, from a state where
                \* that column was not the active one; 0 if not in such a run
  taRun,        \* number of toggleAll events in a row, up to 2
  taOrig        \* selected before the first toggleAll of that run

vars ==
  << selectable, data, pageSize, search, sortKey, sortDir, currentPage, selected,
     selCb, sortCb, lastOp, lastRow, lastCol, heldSel, pageBefore, sortRun,
     taRun, taOrig >>

NoSelCall == [called |-> FALSE, rows |-> <<>>]
NoSortCall == [called |-> FALSE, key |-> NullKey, dir |-> NullDir]

\* ------------------------------------------------------------------------
\* Derived state: filter -> sort -> paginate
\* ------------------------------------------------------------------------
Matches(row, q) ==
  \E i \in 1..Len(columns) :
    LET val == Field(row, columns[i].key)
    IN val # Null /\ Includes(ToLowerCase(ToStr(val)), q)

\* filter that compares the lower-cased values with the text as typed
Filter_NoLower(rows, text) ==
  IF Trim(text) = <<>> THEN rows
  ELSE LET Keep(row) == Matches(row, text)
       IN SelectSeq(rows, Keep)

Filter(rows, text) ==
  IF Trim(text) = <<>> THEN rows
  ELSE LET q == ToLowerCase(text)
           Keep(row) == Matches(row, q)
       IN SelectSeq(rows, Keep)

filtered == Filter(data, search)

\* comparator that lets the direction decide where null values go
Compare_NullsByDir(a, b, key, dir) ==
  LET aVal == Field(a, key)
      bVal == Field(b, key)
      cmp == IF aVal = Null THEN 1
             ELSE IF bVal = Null THEN -1
             ELSE LocaleCompare(ToStr(aVal), ToStr(bVal))
  IN IF dir = "asc" THEN cmp ELSE -cmp

\* comparator that ignores the direction
Compare_IgnoreDir(a, b, key, dir) ==
  LET aVal == Field(a, key)
      bVal == Field(b, key)
  IN IF aVal = Null THEN 1
     ELSE IF bVal = Null THEN -1
     ELSE LocaleCompare(ToStr(aVal), ToStr(bVal))

\* The comparator handed to Array.prototype.sort.
Compare(a, b, key, dir) ==
  LET aVal == Field(a, key)
      bVal == Field(b, key)
  IN IF aVal = Null THEN 1
     ELSE IF bVal = Null THEN -1
     ELSE LET cmp == LocaleCompare(ToStr(aVal), ToStr(bVal))
          IN IF dir = "asc" THEN cmp ELSE -cmp

\* Array.prototype.sort as the engine runs it on a short array: binary
\* insertion.  Position (0-based, in left..right) where pivot is inserted
\* into the sorted prefix.
RECURSIVE InsertPos(_, _, _, _, _, _)
InsertPos(prefix, pivot, left, right, key, dir) ==
  IF left >= right THEN left
  ELSE LET mid == left + ((right - left) \div 2)
       IN IF Compare(pivot, prefix[mid + 1], key, dir) < 0
          THEN InsertPos(prefix, pivot, left, mid, key, dir)
          ELSE InsertPos(prefix, pivot, mid + 1, right, key, dir)

RECURSIVE SortFrom(_, _, _, _)
SortFrom(prefix, rest, key, dir) ==
  IF rest = <<>> THEN prefix
  ELSE LET pivot == Head(rest)
           pos == InsertPos(prefix, pivot, 0, Len(prefix), key, dir)
       IN SortFrom(SubSeq(prefix, 1, pos) \o <<pivot>>
                     \o SubSeq(prefix, pos + 1, Len(prefix)),
                   Tail(rest), key, dir)

\* sort stage that falls back to identifier order when no column is active
SortRows_ByIdWhenUnsorted(rows, key, dir) ==
  IF key = NullKey \/ dir = NullDir THEN SortFrom(<<>>, rows, "id", "asc")
  ELSE SortFrom(<<>>, rows, key, dir)

SortRows(rows, key, dir) ==
  IF key = NullKey \/ dir = NullDir THEN rows
  ELSE SortFrom(<<>>, rows, key, dir)

sorted == SortRows(filtered, sortKey, sortDir)

\* Math.floor in place of Math.ceil
Ceil_Floor(n, p) == n \div p

\* Math.ceil(n / p) for n >= 0, p >= 1
Ceil(n, p) == (n + p - 1) \div p

TotalPages(n, p) == Max(1, Ceil(n, p))

\* In the definitions below rows is the sorted array of the render, passed
\* along so that one render computes it once.
totalPages(rows) == TotalPages(Len(rows), pageSize)

\* no clamp of the current page
SafePage_NoClamp(page, total) == page

SafePage(page, total) == Min(page, total)

safeCurrentPage(rows) == SafePage(currentPage, totalPages(rows))

\* sorted.slice(start, start + pageSize) with start = (page - 1) * pageSize
PageSlice(rows, page, size) ==
  LET start == (page - 1) * size
  IN SubSeq(rows, start + 1, Min(start + size, Len(rows)))

paginated(rows) == PageSlice(rows, safeCurrentPage(rows), pageSize)

\* The pagination bar is rendered.
ControlsRendered(rows) == ~loading /\ Len(rows) > pageSize

\* page window that is not clamped at the last page
PageButtons_NoUpperClamp(safe, total) ==
  LET first == Max(1, safe - 2)
      raw == [i \in 1..Min(5, total) |-> first + (i - 1)]
      Shown(page) == ~(page > total)
  IN SelectSeq(raw, Shown)

\* The numbered page buttons, left to right.
PageButtons(safe, total) ==
  LET first == Max(1, Min(safe - 2, total - 4))
      raw == [i \in 1..Min(5, total) |-> first + (i - 1)]
      Shown(page) == ~(page > total)
  IN SelectSeq(raw, Shown)

pageButtons(rows) == PageButtons(safeCurrentPage(rows), totalPages(rows))

\* The pages that have a numbered button on screen.
ShownPages(rows) ==
  LET b == pageButtons(rows)
  IN IF ControlsRendered(rows) THEN {b[i] : i \in 1..Len(b)} ELSE {}

\* Prev that is never disabled on the first page
PrevDisabled_OffByOne(rows) == safeCurrentPage(rows) < 1

PrevDisabled(rows) == safeCurrentPage(rows) <= 1
NextDisabled(rows) == safeCurrentPage(rows) >= totalPages(rows)

\* The identifiers of a sequence of rows.
RowIds(rows) == {rows[i].id : i \in 1..Len(rows)}

\* ------------------------------------------------------------------------
\* Event handlers
\* ------------------------------------------------------------------------
\* handleSort that only alternates between ascending and descending
NextDir_TwoCycle(curKey, curDir, key) ==
  IF curKey = key
  THEN (IF curDir = "asc" THEN "desc" ELSE "asc")
  ELSE "asc"

\* handleSort: the direction that follows (sortKey, sortDir) when the header
\* of column key is activated.
NextDir(curKey, curDir, key) ==
  IF curKey = key
  THEN (IF curDir = "asc" THEN "desc" ELSE IF curDir = "desc" THEN NullDir ELSE "asc")
  ELSE "asc"

\* setSortKey(key), whatever the direction
NextKey_Always(dir, key) == key

\* setSortKey(dir ? key : null)
NextKey(dir, key) == IF dir # NullDir THEN key ELSE NullKey

\* toggleRow that keeps a single selected row
ToggleRowNext_Single(prev, id) ==
  IF id \in prev THEN prev \ {id} ELSE {id}

\* toggleRow's updater
ToggleRowNext(prev, id) ==
  IF id \in prev THEN prev \ {id} ELSE prev \cup {id}

\* toggleAll that clears the whole selection when the page is all selected
ToggleAllNext_ClearAll(prev, allIds) ==
  LET allSelected == \A id \in allIds : id \in prev
  IN IF allSelected THEN {} ELSE prev \cup allIds

\* toggleAll that always selects the visible rows
ToggleAllNext_AlwaysAdd(prev, allIds) == prev \cup allIds

\* toggleAll's updater, allIds being the identifiers of the paginated rows
ToggleAllNext(prev, allIds) ==
  LET allSelected == \A id \in allIds : id \in prev
  IN IF allSelected THEN prev \ allIds ELSE prev \cup allIds

\* data.filter((r) => next.has(r.id))
SelectedRows(rows, next) ==
  LET Has(r) == r.id \in next
  IN SelectSeq(rows, Has)

NoCallbacks == selCb' = NoSelCall /\ sortCb' = NoSortCall
NoRun == taRun' = 0 /\ taOrig' = {} /\ lastRow' = 0
NoSortRun == sortRun' = 0
NoPageBefore == pageBefore' = 0
NoCol == lastCol' = NullKey
NoHeld == [live |-> FALSE, ids |-> {}]
HeldBase == IF lastOp \in {"toggleRow", "toggleAll"} THEN NoHeld ELSE heldSel
Hold == heldSel' = [live |-> TRUE, ids |-> selected]
KeepHeld == heldSel' = HeldBase

\* onChange that leaves the current page where it is
SetSearch_KeepsPage(text) ==
  /\ searchable
  /\ text # search
  /\ search' = text
  /\ lastOp' = "search"
  /\ NoCallbacks /\ NoRun /\ NoSortRun /\ NoPageBefore /\ NoCol /\ Hold
  /\ UNCHANGED <<selectable, data, pageSize, sortKey, sortDir, selected, currentPage>>

\* The search input's onChange
SetSearch(text) ==
  /\ searchable
  /\ text # search
  /\ search' = text
  /\ currentPage' = 1
  /\ lastOp' = "search"
  /\ NoCallbacks /\ NoRun /\ NoSortRun /\ NoPageBefore /\ NoCol /\ Hold
  /\ UNCHANGED <<selectable, data, pageSize, sortKey, sortDir, selected>>

\* handleSort that passes the new sort column, not the clicked key, to onSort
HeaderClick_CallbackGetsState(i) ==
  LET col == columns[i]
      dir == NextDir(sortKey, sortDir, col.key)
  IN /\ IF col.sortable
        THEN /\ sortKey' = NextKey(dir, col.key)
             /\ sortDir' = dir
             /\ sortCb' = [called |-> TRUE, key |-> sortKey', dir |-> dir]
             /\ lastOp' = "sort"
             /\ Hold
             /\ sortRun' = IF sortCb.called /\ sortCb.key = col.key /\ sortRun \in 1..3
                            THEN sortRun + 1
                            ELSE IF sortKey # col.key THEN 1 ELSE 0
        ELSE /\ UNCHANGED <<sortKey, sortDir>>
             /\ sortCb' = NoSortCall
             /\ lastOp' = "header"
             /\ NoSortRun
             /\ KeepHeld
     /\ lastCol' = col.key
     /\ selCb' = NoSelCall
     /\ NoRun /\ NoPageBefore
     /\ UNCHANGED <<selectable, data, pageSize, search, currentPage, selected>>

\* A header cell's onClick: col.sortable && handleSort(col.key)
HeaderClick(i) ==
  LET col == columns[i]
      dir == NextDir(sortKey, sortDir, col.key)
  IN /\ IF col.sortable
        THEN /\ sortKey' = NextKey(dir, col.key)
             /\ sortDir' = dir
             /\ sortCb' = [called |-> TRUE, key |-> col.key, dir |-> dir]
             /\ lastOp' = "sort"
             /\ Hold
             /\ sortRun' = IF sortCb.called /\ sortCb.key = col.key /\ sortRun \in 1..3
                            THEN sortRun + 1
                            ELSE IF sortKey # col.key THEN 1 ELSE 0
        ELSE /\ UNCHANGED <<sortKey, sortDir>>
             /\ sortCb' = NoSortCall
             /\ lastOp' = "header"
             /\ NoSortRun
             /\ KeepHeld
     /\ lastCol' = col.key
     /\ selCb' = NoSelCall
     /\ NoRun /\ NoPageBefore
     /\ UNCHANGED <<selectable, data, pageSize, search, currentPage, selected>>

\* A row checkbox's onChange; only the rows on the page have one, so id is
\* the identifier of a paginated row.
ToggleRow(id) ==
  /\ selectable /\ ~loading
  /\ selected' = ToggleRowNext(selected, id)
  /\ selCb' = [called |-> TRUE, rows |-> SelectedRows(data, selected')]
  /\ sortCb' = NoSortCall
  /\ lastOp' = "toggleRow"
  /\ lastRow' = id
  /\ taRun' = 0 /\ taOrig' = {}
  /\ NoSortRun /\ NoPageBefore /\ NoCol /\ KeepHeld
  /\ UNCHANGED <<selectable, data, pageSize, search, sortKey, sortDir, currentPage>>

\* toggleAll that resolves the callback's records against the visible page
ToggleAll_VisibleCallback(visible) ==
  /\ selectable
  /\ selected' = ToggleAllNext(selected, RowIds(visible))
  /\ selCb' = [called |-> TRUE, rows |-> SelectedRows(visible, selected')]
  /\ sortCb' = NoSortCall
  /\ lastOp' = "toggleAll"
  /\ taRun' = IF taRun = 1 THEN 2 ELSE 1
  /\ taOrig' = IF taRun = 1 THEN taOrig ELSE selected
  /\ lastRow' = 0
  /\ NoSortRun /\ NoPageBefore /\ NoCol /\ KeepHeld
  /\ UNCHANGED <<selectable, data, pageSize, search, sortKey, sortDir, currentPage>>

\* The header checkbox's onChange, visible being the paginated rows
ToggleAll(visible) ==
  /\ selectable
  /\ selected' = ToggleAllNext(selected, RowIds(visible))
  /\ selCb' = [called |-> TRUE, rows |-> SelectedRows(data, selected')]
  /\ sortCb' = NoSortCall
  /\ lastOp' = "toggleAll"
  /\ taRun' = IF taRun = 1 THEN 2 ELSE 1
  /\ taOrig' = IF taRun = 1 THEN taOrig ELSE selected
  /\ lastRow' = 0
  /\ NoSortRun /\ NoPageBefore /\ NoCol /\ KeepHeld
  /\ UNCHANGED <<selectable, data, pageSize, search, sortKey, sortDir, currentPage>>

\* Prev button: setCurrentPage((p) => Math.max(1, p - 1))
Prev(rows) ==
  /\ ControlsRendered(rows) /\ ~PrevDisabled(rows)
  /\ currentPage' = Max(1, currentPage - 1)
  /\ lastOp' = "prev"
  /\ pageBefore' = safeCurrentPage(rows)
  /\ NoCallbacks /\ NoRun /\ NoSortRun /\ NoCol /\ Hold
  /\ UNCHANGED <<selectable, data, pageSize, search, sortKey, sortDir, selected>>

\* Next button: setCurrentPage((p) => Math.min(totalPages, p + 1))
NextPage(rows) ==
  /\ ControlsRendered(rows) /\ ~NextDisabled(rows)
  /\ currentPage' = Min(totalPages(rows), currentPage + 1)
  /\ lastOp' = "next"
  /\ pageBefore' = safeCurrentPage(rows)
  /\ NoCallbacks /\ NoRun /\ NoSortRun /\ NoCol /\ Hold
  /\ UNCHANGED <<selectable, data, pageSize, search, sortKey, sortDir, selected>>

\* numbered button that also drops the selection
GotoPage_ClearsSelection(page) ==
  /\ currentPage' = page
  /\ selected' = {}
  /\ lastOp' = "goto"
  /\ NoCallbacks /\ NoRun /\ NoSortRun /\ NoPageBefore /\ NoCol /\ Hold
  /\ UNCHANGED <<selectable, data, pageSize, search, sortKey, sortDir>>

\* A numbered button: setCurrentPage(page), page being one of pageButtons
GotoPage(page) ==
  /\ currentPage' = page
  /\ lastOp' = "goto"
  /\ NoCallbacks /\ NoRun /\ NoSortRun /\ NoPageBefore /\ NoCol /\ Hold
  /\ UNCHANGED <<selectable, data, pageSize, search, sortKey, sortDir, selected>>

\* The caller renders the component with another data array.
SetData(n) ==
  /\ DataOf(n) # data
  /\ data' = DataOf(n)
  /\ lastOp' = "data"
  /\ NoCallbacks /\ NoRun /\ NoSortRun /\ NoPageBefore /\ NoCol /\ KeepHeld
  /\ UNCHANGED <<selectable, pageSize, search, sortKey, sortDir, currentPage, selected>>

\* The caller renders the component with another pageSize.
SetPageSize(p) ==
  /\ p # pageSize
  /\ pageSize' = p
  /\ lastOp' = "pageSize"
  /\ NoCallbacks /\ NoRun /\ NoSortRun /\ NoPageBefore /\ NoCol /\ KeepHeld
  /\ UNCHANGED <<selectable, data, search, sortKey, sortDir, currentPage, selected>>

Init ==
  /\ selectable \in BOOLEAN
  /\ data \in {DataOf(n) : n \in DataLens(selectable)}
  /\ pageSize \in 1..MaxPageSize
  /\ search = <<>>
  /\ sortKey = NullKey
  /\ sortDir = NullDir
  /\ currentPage = 1
  /\ selected = {}
  /\ selCb = NoSelCall
  /\ sortCb = NoSortCall
  /\ lastOp = "init"
  /\ lastRow = 0
  /\ lastCol = NullKey
  /\ heldSel = NoHeld
  /\ pageBefore = 0
  /\ sortRun = 0
  /\ taRun = 0
  /\ taOrig = {}

Next ==
  LET rows == sorted
      visible == paginated(rows)
  IN
  \/ \E text \in Searches : SetSearch(text)
  \/ \E i \in 1..Len(columns) : HeaderClick(i)
  \/ \E id \in RowIds(visible) : ToggleRow(id)
  \/ ToggleAll(visible)
  \/ Prev(rows)
  \/ NextPage(rows)
  \/ \E page \in ShownPages(rows) : GotoPage(page)
  \/ \E n \in DataLens(selectable) : SetData(n)
  \/ \E p \in 1..MaxPageSize : SetPageSize(p)

Spec == Init /\ [][Next]_vars

\* ------------------------------------------------------------------------
\* Selection
\* ------------------------------------------------------------------------
VisibleIds == RowIds(paginated(sorted))

\* C1 (as stated): after toggleAll twice in a row with nothing in between,
\* the selection restricted to the visible rows has the membership it had
\* before the first toggleAll.
C1_ToggleAllTwiceRestores ==
  taRun = 2 => (selected \cap VisibleIds) = (taOrig \cap VisibleIds)

\* C1 (amended): after toggleAll twice in a row with nothing in between, the
\* selection restricted to the visible rows has the membership it had before
\* the first toggleAll provided the visible rows were then all selected or
\* all unselected; if only some of them were selected, no visible row is
\* selected afterwards.  Identifiers off the page keep their membership.
C1_ToggleAllTwiceAmended ==
  taRun = 2 =>
    /\ (VisibleIds \subseteq taOrig \/ VisibleIds \cap taOrig = {})
         => (selected \cap VisibleIds) = (taOrig \cap VisibleIds)
    /\ ~(VisibleIds \subseteq taOrig \/ VisibleIds \cap taOrig = {})
         => (selected \cap VisibleIds) = {}
    /\ (selected \ VisibleIds) = (taOrig \ VisibleIds)

\* Two toggleAll in a row on a page whose rows were all selected: they are
\* all selected again, and another page's selection is still there.
C1_Witness ==
  /\ taRun = 2
  /\ VisibleIds # {}
  /\ VisibleIds \subseteq taOrig
  /\ VisibleIds \subseteq selected
  /\ selected \ VisibleIds # {}

\* C2: toggleAll acts on the visible rows only: if every visible identifier
\* is selected the new set is the old set minus the visible identifiers,
\* otherwise the old set plus the visible identifiers; identifiers that are
\* not on the page keep their membership.
C2_ToggleAllVisibleOnly ==
  [][lastOp' = "toggleAll" =>
       /\ (VisibleIds \subseteq selected) => selected' = selected \ VisibleIds
       /\ ~(VisibleIds \subseteq selected) => selected' = selected \cup VisibleIds
       /\ \A id \in Ids \ VisibleIds : (id \in selected') <=> (id \in selected)
    ]_vars

\* toggleAll has deselected a full page while another page's selection stays.
C2_Witness ==
  /\ lastOp = "toggleAll"
  /\ taRun = 1
  /\ VisibleIds # {}
  /\ VisibleIds \subseteq taOrig
  /\ selected \cap VisibleIds = {}
  /\ selected # {}

\* C3: toggleRow(id) flips the membership of id and of no other identifier,
\* on the page or off it, passing the filter or not.
C3_ToggleRowFlipsOne ==
  [][lastOp' = "toggleRow" =>
       /\ (lastRow' \in selected') <=> ~(lastRow' \in selected)
       /\ \A other \in Ids \ {lastRow'} : (other \in selected') <=> (other \in selected)
    ]_vars

\* toggleRow has selected a row while a selected identifier is filtered out
\* and another is on a different page.
C3_Witness ==
  /\ lastOp = "toggleRow"
  /\ lastRow \in selected
  /\ selected \ RowIds(filtered) # {}
  /\ (selected \cap RowIds(filtered)) \ VisibleIds # {}

\* Position of the record with identifier id in rows (0 if absent).
IndexOfId(rows, id) ==
  IF \E i \in 1..Len(rows) : rows[i].id = id
  THEN CHOOSE i \in 1..Len(rows) : rows[i].id = id
  ELSE 0

\* rows holds exactly the records of data whose identifier is in ids, once
\* each, in data's order.
IsSelectionOf(rows, ids) ==
  /\ \A i \in 1..Len(rows) : \E j \in 1..Len(data) : rows[i] = data[j]
  /\ RowIds(rows) = ids \cap RowIds(data)
  /\ \A i, j \in 1..Len(rows) :
       i < j => IndexOfId(data, rows[i].id) < IndexOfId(data, rows[j].id)

\* C4: every toggleRow and toggleAll calls onSelectionChange with the
\* records of the whole data array whose identifier is in the new selection
\* set, in data's order; toggleAll on a fully selected page, with nothing
\* selected elsewhere, delivers the empty list.
C4_CallbackGetsAllSelected ==
  [][lastOp' \in {"toggleRow", "toggleAll"} =>
       /\ selCb'.called
       /\ IsSelectionOf(selCb'.rows, selected')
       /\ (lastOp' = "toggleAll" /\ VisibleIds # {} /\ selected = VisibleIds)
            => selCb'.rows = <<>>
    ]_vars

\* A toggle delivered two or more records of which one is not on the page.
C4_Witness ==
  /\ lastOp \in {"toggleRow", "toggleAll"}
  /\ selCb.called
  /\ Len(selCb.rows) >= 2
  /\ RowIds(selCb.rows) \ VisibleIds # {}
  /\ RowIds(selCb.rows) \ RowIds(filtered) # {}

\* ------------------------------------------------------------------------
\* Pagination
\* ------------------------------------------------------------------------
\* C5: in every state the page used for slicing is in 1..totalPages and the
\* visible rows are the window of at most pageSize records of sorted that
\* starts at (page - 1) * pageSize; with pageSize 1, 3 records and stored
\* page 5 it is page 3 showing the 3rd record.
C5_PageClampedAndWindow ==
  LET rows == sorted
      page == safeCurrentPage(rows)
      visible == paginated(rows)
      start == (page - 1) * pageSize
  IN /\ page >= 1
     /\ page <= totalPages(rows)
     /\ Len(visible) = Max(0, Min(pageSize, Len(rows) - start))
     /\ \A i \in 1..Len(visible) : visible[i] = rows[start + i]
     /\ (pageSize = 1 /\ Len(rows) = 3 /\ currentPage = 5)
          => (page = 3 /\ visible = <<rows[3]>>)

\* The stored page 5 is out of range for 3 records of page size 1.
C5_Witness ==
  LET rows == sorted
  IN /\ pageSize = 1
     /\ Len(rows) = 3
     /\ currentPage = 5
     /\ safeCurrentPage(rows) = 3
     /\ paginated(rows) = <<rows[3]>>

\* Slices of pages first..last of rows, one after the other.
RECURSIVE ConcatPages(_, _, _, _)
ConcatPages(rows, first, last, size) ==
  IF first > last THEN <<>>
  ELSE PageSlice(rows, first, size) \o ConcatPages(rows, first + 1, last, size)

\* k is the least number of pages of p records that hold n records.
IsCeil(k, n, p) == k * p >= n /\ (k = 0 \/ (k - 1) * p < n)

\* C6: totalPages is max(1, ceil(n / p)) and the slices of pages
\* 1..totalPages, in order, make up sorted exactly.
C6_PagesPartitionSorted ==
  LET rows == sorted
      n == Len(rows)
      total == totalPages(rows)
  IN /\ \E k \in 0..n : IsCeil(k, n, pageSize) /\ total = Max(1, k)
     /\ ConcatPages(rows, 1, total, pageSize) = rows

\* A filtered, descending render of several pages of which the last one is
\* not full.
C6_Witness ==
  LET rows == sorted
      total == totalPages(rows)
  IN /\ sortDir = "desc"
     /\ Trim(search) # <<>>
     /\ Len(rows) < Len(data)
     /\ total >= 2
     /\ Len(rows) % pageSize # 0
     /\ Len(PageSlice(rows, total, pageSize)) < pageSize

\* C7: when the page controls are rendered, the numbered buttons are
\* min(5, totalPages) consecutive pages within 1..totalPages that include
\* the current page, and are current-2..current+2 when that range fits.
C7_PageButtonWindow ==
  LET rows == sorted
      b == pageButtons(rows)
      c == safeCurrentPage(rows)
      total == totalPages(rows)
  IN ControlsRendered(rows) =>
       /\ Len(b) = Min(5, total)
       /\ \A i \in 1..Len(b) : b[i] >= 1 /\ b[i] <= total
       /\ \A i \in 1..(Len(b) - 1) : b[i + 1] = b[i] + 1
       /\ \E i \in 1..Len(b) : b[i] = c
       /\ (c - 2 >= 1 /\ c + 2 <= total)
            => b = <<c - 2, c - 1, c, c + 1, c + 2>>

\* More than five pages, the window slid off page 1 and ends at the last page.
C7_Witness ==
  LET rows == sorted
      b == pageButtons(rows)
      total == totalPages(rows)
  IN /\ ControlsRendered(rows)
     /\ total >= 6
     /\ safeCurrentPage(rows) = total
     /\ b[1] = total - 4
     /\ b[1] > 1

\* C8: Prev is disabled exactly on the first page and Next exactly on the
\* last page; a Prev acts only where it is enabled and never moves the
\* displayed page up, a Next only where it is enabled and never down, and
\* neither takes it out of 1..totalPages.  (Prev and Next change currentPage
\* only, so totalPages is the same before and after.)
C8_PrevNextNoWrap ==
  LET rows == sorted
      page == safeCurrentPage(rows)
      total == totalPages(rows)
  IN /\ PrevDisabled(rows) <=> (page = 1)
     /\ NextDisabled(rows) <=> (page = total)
     /\ lastOp \in {"prev", "next"} => (page >= 1 /\ page <= total)
     /\ lastOp = "prev" => (pageBefore > 1 /\ page <= pageBefore)
     /\ lastOp = "next" => (pageBefore < total /\ page >= pageBefore)

\* Next has reached the last page, where it is disabled.
C8_Witness ==
  LET rows == sorted
  IN /\ lastOp = "next"
     /\ ControlsRendered(rows)
     /\ safeCurrentPage(rows) = totalPages(rows)
     /\ pageBefore = totalPages(rows) - 1
     /\ NextDisabled(rows)
     /\ ~PrevDisabled(rows)

\* ------------------------------------------------------------------------
\* Sort state
\* ------------------------------------------------------------------------
\* C9: activating the active column's header takes ascending to descending
\* and descending to unsorted; activating another column's header (or any
\* header when unsorted) gives that column ascending; so the third
\* activation in a row ends unsorted and the fourth as the first did.
C9_SortCycle ==
  [][lastOp' = "sort" =>
       LET key == sortCb'.key
       IN /\ (sortKey # key) => (sortKey' = key /\ sortDir' = "asc")
          /\ (sortKey = key /\ sortDir = "asc") => (sortKey' = key /\ sortDir' = "desc")
          /\ (sortKey = key /\ sortDir = "desc")
               => (sortKey' = NullKey /\ sortDir' = NullDir)
          /\ sortRun' = 1 => (sortKey' = key /\ sortDir' = "asc")
          /\ sortRun' = 2 => (sortKey' = key /\ sortDir' = "desc")
          /\ sortRun' = 3 => (sortKey' = NullKey /\ sortDir' = NullDir)
          /\ sortRun' = 4 => (sortKey' = key /\ sortDir' = "asc")
    ]_vars

\* The fourth activation in a row of one header.
C9_Witness ==
  /\ lastOp = "sort"
  /\ sortRun = 4
  /\ sortKey = sortCb.key
  /\ sortDir = "asc"

\* C10: the sort direction is none exactly when the sort column is none.
C10_DirNoneIffKeyNone ==
  (sortDir = NullDir) <=> (sortKey = NullKey)

\* The third activation of a header has returned the table to unsorted.
C10_Witness ==
  /\ lastOp = "sort"
  /\ sortRun = 3
  /\ sortKey = NullKey
  /\ sortDir = NullDir

\* ------------------------------------------------------------------------
\* Filter
\* ------------------------------------------------------------------------
\* text occurs in value, letter case apart.
ContainsCI(value, text) ==
  \E off \in 0..(Len(value) - Len(text)) :
    \A j \in 1..Len(text) : LowerChar(value[off + j]) = LowerChar(text[j])

\* Some non-null column value of row, as text, contains text, case apart.
RowContains(row, text) ==
  \E i \in 1..Len(columns) :
    /\ Field(row, columns[i].key) # Null
    /\ ContainsCI(ToStr(Field(row, columns[i].key)), text)

\* The indices of the records of data that filtered keeps.
KeptIndices(rows) == {i \in 1..Len(data) : \E j \in 1..Len(rows) : rows[j] = data[i]}

\* rows is data restricted to the indices in keep, in data's order.
IsSubsequenceAt(rows, keep) ==
  /\ Len(rows) = Cardinality(keep)
  /\ \A j \in 1..Len(rows) :
       \E i \in keep : rows[j] = data[i] /\ Cardinality({k \in keep : k <= i}) = j

\* C11: for a search text that is not empty after trimming, filtered is the
\* subsequence of data of the records of which some non-null column value
\* contains the TRIMMED text, case apart; white space around the text does
\* not change the result.
C11_FilterUsesTrimmedSearch ==
  Trim(search) # <<>> =>
    IsSubsequenceAt(filtered,
                    {i \in 1..Len(data) : RowContains(data[i], Trim(search))})

\* C12 (as stated): for every non-empty search text, white space only
\* included, every record of filtered contains the text, case apart, in
\* some column value and every record left out contains it in none.
C12_FilterSoundAndComplete ==
  search # <<>> =>
    LET rows == filtered
    IN /\ \A j \in 1..Len(rows) : RowContains(rows[j], search)
       /\ \A i \in 1..Len(data) :
            (\A j \in 1..Len(rows) : rows[j] # data[i]) => ~RowContains(data[i], search)

\* C12 (amended): for every search text that is not empty after trimming,
\* every record of filtered contains the text as typed, case apart, in some
\* column value and every record left out contains it in none; a text of
\* white space only leaves data unfiltered.
C12_FilterSoundAndCompleteAmended ==
  LET rows == filtered
  IN /\ Trim(search) # <<>> =>
          /\ \A j \in 1..Len(rows) : RowContains(rows[j], search)
          /\ \A i \in 1..Len(data) :
               (\A j \in 1..Len(rows) : rows[j] # data[i])
                 => ~RowContains(data[i], search)
     /\ Trim(search) = <<>> => rows = data

\* An upper-case search text keeps some records and leaves some out.
C12_Witness ==
  /\ search = <<"B">>
  /\ lastOp = "search"
  /\ filtered # <<>>
  /\ Len(filtered) < Len(data)

\* ------------------------------------------------------------------------
\* Sort
\* ------------------------------------------------------------------------
\* a and b hold the same records (records are distinct by identifier).
IsPermutation(a, b) ==
  /\ Len(a) = Len(b)
  /\ \A i \in 1..Len(a) : \E j \in 1..Len(b) : a[i] = b[j]

SortActive == sortKey # NullKey /\ sortDir # NullDir

\* C13: while a sort column is active, sorted is a permutation of filtered
\* in which every record with a null sort value comes after every record
\* with a non-null one, ascending and descending alike.
C13_NullsLast ==
  SortActive =>
    LET rows == sorted
    IN /\ IsPermutation(rows, filtered)
       /\ \A i \in 1..Len(rows) : \A j \in 1..Len(rows) :
            (Field(rows[i], sortKey) = Null /\ Field(rows[j], sortKey) # Null)
              => j < i

\* A descending sort of a list with two null values, one of which precedes
\* a non-null value in filtered.
C13_Witness ==
  /\ SortActive
  /\ sortDir = "desc"
  /\ LET f == filtered
     IN /\ Cardinality({i \in 1..Len(f) : Field(f[i], sortKey) = Null}) >= 2
        /\ \E i \in 1..Len(f) : \E j \in 1..Len(f) :
             i < j /\ Field(f[i], sortKey) = Null /\ Field(f[j], sortKey) # Null

\* C14 (as stated): adjacent records (a, b) of an ascending result satisfy
\* compare(a, b) <= 0 and of a descending result compare(a, b) >= 0, for
\* every input, equal and null sort values included.
C14_AdjacentOrdered ==
  SortActive =>
    LET rows == sorted
    IN \A i \in 1..(Len(rows) - 1) :
         IF sortDir = "asc"
         THEN Compare(rows[i], rows[i + 1], sortKey, "asc") <= 0
         ELSE Compare(rows[i], rows[i + 1], sortKey, "asc") >= 0

\* C14 (amended): adjacent records (a, b) of an ascending result satisfy
\* compare(a, b) <= 0 unless both sort values are null, and of a descending
\* result compare(a, b) >= 0 unless a's sort value is non-null and b's is
\* null.
C14_AdjacentOrderedAmended ==
  SortActive =>
    LET rows == sorted
    IN \A i \in 1..(Len(rows) - 1) :
         LET aVal == Field(rows[i], sortKey)
             bVal == Field(rows[i + 1], sortKey)
             c == Compare(rows[i], rows[i + 1], sortKey, "asc")
         IN IF sortDir = "asc"
            THEN c <= 0 \/ (aVal = Null /\ bVal = Null)
            ELSE c >= 0 \/ (aVal # Null /\ bVal = Null)

\* A descending result that has a pair of equal values, a pair of
\* different values and a null value.
C14_Witness ==
  /\ SortActive
  /\ sortDir = "desc"
  /\ lastOp = "sort"
  /\ LET rows == sorted
     IN /\ \E i \in 1..(Len(rows) - 1) :
             Compare(rows[i], rows[i + 1], sortKey, "asc") = 0
        /\ \E i \in 1..(Len(rows) - 1) :
             /\ Field(rows[i + 1], sortKey) # Null
             /\ Compare(rows[i], rows[i + 1], sortKey, "asc") > 0
        /\ \E i \in 1..Len(rows) : Field(rows[i], sortKey) = Null

\* C15: while no sort is active, at the start and after the third
\* activation of a column, the displayed order is filtered, which is data's
\* records in data's order; sorting changes neither the caller's data array
\* nor filtered.
C15_UnsortedIsOriginalOrder ==
  LET f == filtered
      rows == SortRows(f, sortKey, sortDir)
  IN /\ data = DataOf(Len(data))
     /\ IsSubsequenceAt(f, KeptIndices(f))
     /\ ~SortActive => rows = f
     /\ (lastOp = "sort" /\ sortRun = 3) => ~SortActive /\ rows = f
     /\ (Len(data) = 2 /\ search = <<>> /\ sortKey = "name") =>
          rows = IF sortDir = "asc" THEN <<data[2], data[1]>> ELSE data

\* The third activation of a column, on a filtered list that the first
\* activation had reordered.
C15_Witness ==
  /\ lastOp = "sort"
  /\ sortRun = 3
  /\ Trim(search) # <<>>
  /\ LET f == filtered
     IN /\ Len(f) >= 2
        /\ SortRows(f, sortCb.key, "asc") # f
        /\ sorted = f

\* C16 (as stated): every activation of a sortable header invokes onSort
\* once with the activated key and the new direction, and the pair passed is
\* the sort state held after the activation; activating a header that is not
\* sortable changes no sort state and invokes no callback.
C16_OnSortGetsSortState ==
  [][/\ lastOp' = "sort" =>
          /\ sortCb'.called
          /\ sortCb'.key = lastCol'
          /\ sortCb'.key = sortKey'
          /\ sortCb'.dir = sortDir'
     /\ lastOp' = "header" =>
          /\ UNCHANGED <<sortKey, sortDir>>
          /\ ~sortCb'.called /\ ~selCb'.called
     /\ lastCol' # NullKey =>
          (lastOp' = "sort" <=> \E i \in 1..Len(columns) :
                                  columns[i].key = lastCol' /\ columns[i].sortable)
    ]_vars

\* C16 (amended): every activation of a sortable header invokes onSort once
\* with the activated key and the new direction; the direction passed is the
\* direction held after the activation, and the key passed is the sort
\* column held after it unless the new direction is none, in which case the
\* component holds no sort column while onSort still receives the activated
\* key.  Activating a header that is not sortable changes no sort state and
\* invokes no callback.
C16_OnSortGetsSortStateAmended ==
  [][/\ lastOp' = "sort" =>
          /\ sortCb'.called
          /\ sortCb'.key = lastCol'
          /\ sortCb'.dir = sortDir'
          /\ sortDir' # NullDir => sortKey' = sortCb'.key
          /\ sortDir' = NullDir => sortKey' = NullKey
     /\ lastOp' = "header" =>
          /\ UNCHANGED <<sortKey, sortDir>>
          /\ ~sortCb'.called /\ ~selCb'.called
     /\ lastCol' # NullKey =>
          (lastOp' = "sort" <=> \E i \in 1..Len(columns) :
                                  columns[i].key = lastCol' /\ columns[i].sortable)
    ]_vars

\* The activation that returns a column to unsorted: onSort has received
\* the column's key and no direction.
C16_Witness ==
  /\ lastOp = "sort"
  /\ sortRun = 3
  /\ sortCb.called /\ sortCb.key = "role" /\ sortCb.dir = NullDir
  /\ sortKey = NullKey

\* ------------------------------------------------------------------------
\* Cross-feature
\* ------------------------------------------------------------------------
\* C17: in every reachable state, a stale current page included, Prev while
\* enabled shows the page one below the page shown before and Next while
\* enabled the page one above.
C17_PrevNextMoveDisplayedPage ==
  LET rows == sorted
  IN /\ lastOp = "prev" => safeCurrentPage(rows) = pageBefore - 1
     /\ lastOp = "next" => safeCurrentPage(rows) = pageBefore + 1

\* C18: every search edit sets the current page to 1, so that the page
\* shown right after it is page 1 whatever the number of pages; a header
\* click leaves the stored current page as it is.
C18_SearchResetsPageSortKeepsIt ==
  [][/\ lastOp' = "search" =>
          /\ currentPage' = 1
          /\ \A total \in 1..(MaxRecs + 1) : SafePage(currentPage', total) = 1
     /\ lastOp' \in {"sort", "header"} => currentPage' = currentPage
    ]_vars

\* A search edit that leaves a sorted result of several pages, of which the
\* first is shown.
C18_Witness ==
  /\ lastOp = "search"
  /\ Trim(search) # <<>>
  /\ SortActive
  /\ currentPage = 1
  /\ LET rows == sorted
     IN totalPages(rows) >= 2 /\ safeCurrentPage(rows) = 1

\* C19 (as stated): search edits, sort activations and page navigation leave
\* the selection as it is and invoke no selection callback; an identifier
\* selected before such an event is in the list the next onSelectionChange
\* call delivers.
C19_SelectionSurvives ==
  /\ lastOp \in {"search", "sort", "prev", "next", "goto"} =>
       /\ heldSel.live /\ heldSel.ids = selected
       /\ ~selCb.called
  /\ (lastOp \in {"toggleRow", "toggleAll"} /\ heldSel.live) =>
       \A id \in heldSel.ids : id \in RowIds(selCb.rows)

\* C19 (amended): search edits, sort activations and page navigation leave
\* the selection as it is and invoke no selection callback; an identifier
\* selected before such an event is in the list the next onSelectionChange
\* call delivers unless that toggle deselects it (toggleRow of its row, or
\* toggleAll on the page that shows it) or its record is no longer in data.
C19_SelectionSurvivesAmended ==
  /\ lastOp \in {"search", "sort", "prev", "next", "goto"} =>
       /\ heldSel.live /\ heldSel.ids = selected
       /\ ~selCb.called
  /\ (lastOp \in {"toggleRow", "toggleAll"} /\ heldSel.live) =>
       \A id \in heldSel.ids :
         /\ id \notin selected =>
              \/ lastOp = "toggleRow" /\ id = lastRow
              \/ lastOp = "toggleAll" /\ id \in VisibleIds
         /\ (id \in selected /\ id \in RowIds(data)) => id \in RowIds(selCb.rows)

\* A search edit has filtered a selected row out, and the toggle of another
\* row that follows delivers the hidden row too.
C19_Witness ==
  /\ lastOp = "toggleRow"
  /\ heldSel.live
  /\ \E id \in heldSel.ids :
       /\ id # lastRow
       /\ id \notin RowIds(filtered)
       /\ id \in RowIds(selCb.rows)
  /\ lastRow \in selected

====
